---- MODULE Spec2Model ----
(***************************************************************************)
(* superfreq: alphabets, messages, Caesar and Vigenere ciphers and the     *)
(* cosine-similarity crack, modelled from src/superfreq/message.py,        *)
(* src/superfreq/cipher.py and src/superfreq/util.py.                      *)
(*                                                                         *)
(* Characters are one-character strings, Python lists and strings are      *)
(* sequences, list positions are 0-based as in the source (element i of a  *)
(* Python list is element i+1 of the sequence).  A call that raises is     *)
(* recorded as [raised |-> <exception name>], a call that returns as       *)
(* [raised |-> "", value |-> <returned list>].                             *)
(***************************************************************************)
EXTENDS Integers, Sequences, FiniteSets, TLC

VARIABLES message, call, result, steps

vars == <<message, call, result, steps>>

(***************************************************************************)
(* Bounds of the explored inputs.                                          *)
(***************************************************************************)
MaxLen == 3
MaxKey == 3
MaxShift == 4
MaxSteps == 2

Range(s) == {s[k] : k \in 1..Len(s)}

SeqsUpTo(S, n) == UNION {[1..k -> S] : k \in 0..n}

\* A Python list built by a comprehension: the sequence with every element
\* evaluated once.
List(f) == <<>> \o f

Ok(v) == [raised |-> "", value |-> v]

Raise(e) == [raised |-> e, value |-> <<>>]

(***************************************************************************)
(* message.py: Alphabet                                                    *)
(***************************************************************************)
Alphabet(characters, mapper) ==
    [characters |-> characters, charset |-> Range(characters), mapper |-> mapper]

RECURSIVE to_alphabet_loop(_, _, _, _, _)
to_alphabet_loop(alphabet, original, i, mapped, offsets) ==
    IF i >= Len(original) THEN <<mapped, offsets>>
    ELSE LET character == original[i + 1] IN
         IF character \in alphabet.charset
         THEN to_alphabet_loop(alphabet, original, i + 1,
                               Append(mapped, character), Append(offsets, i))
         ELSE IF character \in DOMAIN alphabet.mapper
         THEN to_alphabet_loop(alphabet, original, i + 1,
                               Append(mapped, alphabet.mapper[character]),
                               Append(offsets, i))
         ELSE to_alphabet_loop(alphabet, original, i + 1, mapped, offsets)

\* The first revision of to_alphabet (src/superfreq.py): a mapped character
\* is appended to the alphabet text but its offset is not recorded.
RECURSIVE to_alphabet_loop_nooffset(_, _, _, _, _)
to_alphabet_loop_nooffset(alphabet, original, i, mapped, offsets) ==
    IF i >= Len(original) THEN <<mapped, offsets>>
    ELSE LET character == original[i + 1] IN
         IF character \in alphabet.charset
         THEN to_alphabet_loop_nooffset(alphabet, original, i + 1,
                               Append(mapped, character), Append(offsets, i))
         ELSE IF character \in DOMAIN alphabet.mapper
         THEN to_alphabet_loop_nooffset(alphabet, original, i + 1,
                               Append(mapped, alphabet.mapper[character]),
                               offsets)
         ELSE to_alphabet_loop_nooffset(alphabet, original, i + 1, mapped, offsets)

to_alphabet_nooffset(alphabet, original) ==
    to_alphabet_loop_nooffset(alphabet, original, 0, <<>>, <<>>)

to_alphabet(alphabet, original) ==
    to_alphabet_loop(alphabet, original, 0, <<>>, <<>>)

\* mapped[idx] raises IndexError when idx is past the end of mapped.
RECURSIVE from_alphabet_loop(_, _, _, _, _, _)
from_alphabet_loop(mapped, offsets, original, i, idx, res) ==
    IF i >= Len(original) THEN Ok(res)
    ELSE IF idx < Len(offsets) /\ offsets[idx + 1] = i
    THEN IF idx >= Len(mapped) THEN Raise("IndexError")
         ELSE from_alphabet_loop(mapped, offsets, original, i + 1, idx + 1,
                                 Append(res, mapped[idx + 1]))
    ELSE from_alphabet_loop(mapped, offsets, original, i + 1, idx,
                            Append(res, original[i + 1]))

\* from_alphabet with the increment of idx left out.
RECURSIVE from_alphabet_loop_noadvance(_, _, _, _, _, _)
from_alphabet_loop_noadvance(mapped, offsets, original, i, idx, res) ==
    IF i >= Len(original) THEN Ok(res)
    ELSE IF idx < Len(offsets) /\ offsets[idx + 1] = i
    THEN IF idx >= Len(mapped) THEN Raise("IndexError")
         ELSE from_alphabet_loop_noadvance(mapped, offsets, original, i + 1, idx,
                                 Append(res, mapped[idx + 1]))
    ELSE from_alphabet_loop_noadvance(mapped, offsets, original, i + 1, idx,
                            Append(res, original[i + 1]))

from_alphabet_noadvance(mapped, offsets, original) ==
    from_alphabet_loop_noadvance(mapped, offsets, original, 0, 0, <<>>)

from_alphabet(mapped, offsets, original) ==
    from_alphabet_loop(mapped, offsets, original, 0, 0, <<>>)

\* list.index: the first position holding c.
index(characters, c) ==
    CHOOSE i \in 0..(Len(characters) - 1) :
        /\ characters[i + 1] = c
        /\ \A j \in 0..(i - 1) : characters[j + 1] # c

indices(alphabet, string) ==
    List([k \in 1..Len(string) |-> index(alphabet.characters, string[k])])

\* chars that indexes without reducing a shifted index into range correctly:
\* the remainder is taken of the magnitude.
chars_magnitude(alphabet, idxs) ==
    List([k \in 1..Len(idxs) |->
        alphabet.characters[
            ((IF idxs[k] < 0 THEN -idxs[k] ELSE idxs[k]) % Len(alphabet.characters)) + 1]])

\* Python's % takes the sign of the divisor, as does the % of TLA+.
chars(alphabet, idxs) ==
    List([k \in 1..Len(idxs) |->
        alphabet.characters[(idxs[k] % Len(alphabet.characters)) + 1]])

shift(alphabet, string, offset) ==
    LET idxs == indices(alphabet, string) IN
    chars(alphabet, List([k \in 1..Len(idxs) |-> idxs[k] + offset]))

empty_counter(alphabet) == [c \in alphabet.charset |-> 0]

ABC_ALPHABET == Alphabet(<<"A", "B", "C">>, ("a" :> "A" @@ "b" :> "B"))

(***************************************************************************)
(* message.py: Message                                                     *)
(***************************************************************************)
Message(text, alphabet) ==
    LET r == to_alphabet(alphabet, text) IN
    [original |-> text, alphabet |-> alphabet, alphatext |-> r[1], offsets |-> r[2]]

\* ''.join of a list of characters is the sequence of those characters.
as_original(m) == from_alphabet(m.alphatext, m.offsets, m.original)

create_from(old_message, new_alphatext) ==
    [Message(old_message.original, old_message.alphabet)
        EXCEPT !.alphatext = new_alphatext]

(***************************************************************************)
(* util.py: roundrobin                                                     *)
(* nexts is the content of the current cycle (iterator numbers), p the     *)
(* position the cycle is at, consumed[x] how many elements iterator x has  *)
(* given.  On StopIteration at p the new cycle is the next pending         *)
(* elements of the old one, which leaves out the exhausted iterator.       *)
(***************************************************************************)
RECURSIVE roundrobin_loop(_, _, _, _, _)
roundrobin_loop(iterables, nexts, p, consumed, out) ==
    LET pending == Len(nexts) IN
    IF pending = 0 THEN out
    ELSE LET x == nexts[p] IN
         IF consumed[x] < Len(iterables[x])
         THEN roundrobin_loop(iterables, nexts, (p % pending) + 1,
                              [consumed EXCEPT ![x] = @ + 1],
                              Append(out, iterables[x][consumed[x] + 1]))
         ELSE roundrobin_loop(iterables,
                              List([k \in 1..(pending - 1) |->
                                        nexts[((p + k - 1) % pending) + 1]]),
                              1, consumed, out)

RECURSIVE chain(_)
chain(iterables) ==
    IF Len(iterables) = 0 THEN <<>>
    ELSE Head(iterables) \o chain(Tail(iterables))

\* A merge that drains each iterable in turn instead of interleaving them.
roundrobin_chain(iterables) == chain(iterables)

\* A merge of zip(*iterables): every iterable is cut to the shortest one.
roundrobin_zip(iterables) ==
    LET L == Len(iterables)
        shortest == CHOOSE q \in {Len(iterables[x]) : x \in 1..L} :
                        \A x \in 1..L : q <= Len(iterables[x])
    IN IF L = 0 THEN <<>>
       ELSE List([j \in 1..(shortest * L) |->
                     iterables[((j - 1) % L) + 1][((j - 1) \div L) + 1]])

roundrobin(iterables) ==
    roundrobin_loop(iterables, [k \in 1..Len(iterables) |-> k], 1,
                    [k \in 1..Len(iterables) |-> 0], <<>>)

(***************************************************************************)
(* cipher.py: CaesarCipher, VigenereCipher                                 *)
(***************************************************************************)
CaesarCipher_encrypt(s, m) == create_from(m, shift(m.alphabet, m.alphatext, s))

\* decrypt that shifts forward, as encrypt does.
CaesarCipher_decrypt_forward(s, m) == create_from(m, shift(m.alphabet, m.alphatext, s))

CaesarCipher_decrypt(s, m) == create_from(m, shift(m.alphabet, m.alphatext, -s))

\* s[i::L]
slice(s, i, L) ==
    LET n == IF i >= Len(s) THEN 0 ELSE ((Len(s) - 1 - i) \div L) + 1 IN
    List([k \in 1..n |-> s[i + (k - 1) * L + 1]])

split_shift_join(m, idxs) ==
    LET L == Len(idxs)
        submessages == List([i \in 1..L |-> slice(m.alphatext, i - 1, L)])
        shifted == List([i \in 1..L |-> shift(m.alphabet, submessages[i], idxs[i])])
    IN create_from(m, roundrobin(shifted))

VigenereCipher_encrypt(key, m) == split_shift_join(m, indices(m.alphabet, key))

VigenereCipher_decrypt(key, m) ==
    LET idxs == indices(m.alphabet, key) IN
    split_shift_join(m, List([k \in 1..Len(idxs) |-> -idxs[k]]))

(***************************************************************************)
(* util.py: SimilarityMetric                                               *)
(* A frequency v/l is kept as the exact fraction <<v, l>>.  The value of   *)
(* compute, num / (sqrt(lden) * sqrt(rden)), is kept as the record         *)
(* [dot, lsq, rsq] that stands for dot / sqrt(lsq * rsq): with every       *)
(* freq[k] = c[k]/n and every frequencies[k] = r[k]/R the factors n and R  *)
(* cancel, dot is the sum of c[k]*r[k], lsq of c[k]^2 and rsq of r[k]^2.   *)
(* Scores are compared as these real numbers.                              *)
(***************************************************************************)
RECURSIVE occurrences(_, _)
occurrences(s, c) ==
    IF Len(s) = 0 THEN 0
    ELSE (IF Head(s) = c THEN 1 ELSE 0) + occurrences(Tail(s), c)

count(m) ==
    [c \in DOMAIN empty_counter(m.alphabet) |->
        empty_counter(m.alphabet)[c] + occurrences(m.alphatext, c)]

RECURSIVE sum_over(_, _)
sum_over(f, S) ==
    IF S = {} THEN 0
    ELSE LET k == CHOOSE x \in S : TRUE IN f[k] + sum_over(f, S \ {k})

\* v/l raises ZeroDivisionError when l is 0 and the counter has a key.
frequency(counter) ==
    LET l == sum_over(counter, DOMAIN counter) IN
    IF l = 0 /\ DOMAIN counter # {} THEN Raise("ZeroDivisionError")
    ELSE Ok([k \in DOMAIN counter |-> <<counter[k], l>>])

\* SimilarityMetric(counter=...): an empty dict is falsy and leaves
\* self.counter unset.
SimilarityMetric_counter(counter) ==
    IF DOMAIN counter = {} THEN Raise("AttributeError")
    ELSE LET f == frequency(counter) IN
         IF f.raised # "" THEN f
         ELSE Ok([counter |-> counter, frequencies |-> f.value])

\* SimilarityMetric(training=...): a Message is always truthy.
SimilarityMetric_training(training) ==
    LET counter == count(training)
        f == frequency(counter) IN
    IF f.raised # "" THEN f
    ELSE Ok([counter |-> counter, frequencies |-> f.value])

compute(sim, m) ==
    LET f == frequency(count(m)) IN
    IF f.raised # "" THEN f
    ELSE LET freq == f.value
             K == Range(m.alphabet.characters)
         IN Ok([dot |-> sum_over([k \in K |-> freq[k][1] * sim.frequencies[k][1]], K),
                lsq |-> sum_over([k \in K |-> freq[k][1] * freq[k][1]], K),
                rsq |-> sum_over([k \in K |-> sim.frequencies[k][1] * sim.frequencies[k][1]], K)])

\* a < b for two values of compute.  The candidates of one crack have the
\* same rsq, and the same lsq, and are then ordered by dot.
ScoreLess(a, b) ==
    IF a.lsq = b.lsq /\ a.rsq = b.rsq THEN a.dot < b.dot
    ELSE a.dot * a.dot * b.lsq * b.rsq < b.dot * b.dot * a.lsq * a.rsq

ScoreEq(a, b) == ~ScoreLess(a, b) /\ ~ScoreLess(b, a)

(***************************************************************************)
(* cipher.py: CaesarCipher.crack                                           *)
(* An option is the tuple (score, message, cipher).  list.sort compares    *)
(* tuples element by element: two options of equal score are compared by   *)
(* their Message, which defines no order, and the sort raises TypeError.   *)
(***************************************************************************)
Option(score, m, s) == [score |-> score, message |-> m, cipher |-> [shift |-> s]]

RECURSIVE sort_reverse(_)
sort_reverse(options) ==
    IF Len(options) = 0 THEN <<>>
    ELSE LET top == CHOOSE i \in 1..Len(options) :
                        \A j \in 1..Len(options) :
                            ~ScoreLess(options[i].score, options[j].score)
             rest == List([k \in 1..(Len(options) - 1) |->
                              IF k < top THEN options[k] ELSE options[k + 1]])
         IN <<options[top]>> \o sort_reverse(rest)

RECURSIVE sort_forward(_)
sort_forward(options) ==
    IF Len(options) = 0 THEN <<>>
    ELSE LET low == CHOOSE i \in 1..Len(options) :
                        \A j \in 1..Len(options) :
                            ~ScoreLess(options[j].score, options[i].score)
             rest == List([k \in 1..(Len(options) - 1) |->
                              IF k < low THEN options[k] ELSE options[k + 1]])
         IN <<options[low]>> \o sort_forward(rest)

\* The loop of crack: candidate i - 1 is the message decrypted with shift
\* i - 1, scored by sim.compute.
crack_results(m) ==
    List([i \in 1..Len(m.alphabet.characters) |-> CaesarCipher_decrypt(i - 1, m)])

crack_scores(m, sim) ==
    LET results == crack_results(m) IN
    List([i \in 1..Len(m.alphabet.characters) |-> compute(sim, results[i])])

\* The options in the order the loop appends them, or the exception that
\* the first failing compute raises.
crack_options(m, sim) ==
    LET n == Len(m.alphabet.characters)
        results == crack_results(m)
        scores == crack_scores(m, sim)
    IN IF \E i \in 1..n : scores[i].raised # ""
       THEN scores[CHOOSE i \in 1..n :
                       /\ scores[i].raised # ""
                       /\ \A j \in 1..(i - 1) : scores[j].raised = ""]
       ELSE Ok(List([i \in 1..n |-> Option(scores[i].value, results[i], i - 1)]))

\* Two options of equal score: the sort has to compare their messages.
compares_messages(options) ==
    \E i, j \in 1..Len(options) :
        i # j /\ ScoreEq(options[i].score, options[j].score)

\* crack without reverse=True: the worst candidate first.
crack_ascending(m, sim) ==
    LET options == crack_options(m, sim) IN
    IF options.raised # "" THEN options
    ELSE IF compares_messages(options.value) THEN Raise("TypeError")
    ELSE Ok(sort_forward(options.value))

crack(m, sim) ==
    LET options == crack_options(m, sim) IN
    IF options.raised # "" THEN options
    ELSE IF compares_messages(options.value) THEN Raise("TypeError")
    ELSE Ok(sort_reverse(options.value))

(***************************************************************************)
(* util.py: index_of_coincidence, cipher.py: VigenereCipher.ic             *)
(* A quotient is kept as the exact fraction <<n, d>> in lowest terms.  ic  *)
(* prints one line per key size; a line is kept as the key size, the       *)
(* value sum(iocs)/i and the digits that %f prints of it, in units of      *)
(* 0.000001.  A call that raises keeps the lines printed before it.        *)
(***************************************************************************)
RECURSIVE gcd(_, _)
gcd(a, b) == IF b = 0 THEN a ELSE gcd(b, a % b)

Frac(n, d) == LET g == gcd(n, d) IN <<n \div g, d \div g>>

frac_add(a, b) == Frac(a[1] * b[2] + b[1] * a[2], a[2] * b[2])

RECURSIVE frac_sum(_)
frac_sum(fs) ==
    IF Len(fs) = 0 THEN <<0, 1>> ELSE frac_add(Head(fs), frac_sum(Tail(fs)))

\* x / (N * (N - 1)) raises ZeroDivisionError for a string of 0 or 1
\* characters.
index_of_coincidence(s) ==
    LET c == [k \in Range(s) |-> occurrences(s, k)]
        x == sum_over([k \in Range(s) |-> c[k] * (c[k] - 1)], Range(s))
        N == Len(s)
    IN IF N * (N - 1) = 0 THEN Raise("ZeroDivisionError")
       ELSE Ok(Frac(x, N * (N - 1)))

\* The factor in index_of_coincidence(s[x::i]) * 26
IocScale == 26

\* '%f' % v: v rounded to six decimals.
format_f(v) ==
    LET whole == v[1] \div v[2]
        rem == v[1] % v[2]
    IN whole * 1000000 + (2 * rem * 1000000 + v[2]) \div (2 * v[2])

RECURSIVE ic_loop(_, _, _)
ic_loop(s, i, printed) ==
    IF i >= Len(s) - 1 THEN Ok(printed)
    ELSE LET parts == List([x \in 1..i |-> index_of_coincidence(slice(s, x - 1, i))])
         IN IF \E x \in 1..i : parts[x].raised # ""
            THEN [raised |-> "ZeroDivisionError", value |-> printed]
            ELSE LET iocs == List([x \in 1..i |->
                                      Frac(parts[x].value[1] * IocScale, parts[x].value[2])])
                     total == frac_sum(iocs)
                     v == Frac(total[1], total[2] * i)
                 IN ic_loop(s, i + 1,
                            Append(printed, [key_size |-> i, value |-> v,
                                             printed |-> format_f(v)]))

\* for i in range(2, len(s)-1)
ic(m) == ic_loop(m.alphatext, 2, <<>>)

(***************************************************************************)
(* message.py: UPCASE_ALPHABET, util.py: ENGFREQ                           *)
(* ENGFREQ is held in units of 0.00001; frequency() divides every entry by *)
(* the sum of the table, so the unit cancels.                              *)
(***************************************************************************)
ascii_uppercase ==
    <<"A", "B", "C", "D", "E", "F", "G", "H", "I", "J", "K", "L", "M",
      "N", "O", "P", "Q", "R", "S", "T", "U", "V", "W", "X", "Y", "Z">>

ascii_lowercase ==
    <<"a", "b", "c", "d", "e", "f", "g", "h", "i", "j", "k", "l", "m",
      "n", "o", "p", "q", "r", "s", "t", "u", "v", "w", "x", "y", "z">>

ascii_letters == ascii_lowercase \o ascii_uppercase

\* dict(zip(keys, values))
dict_zip(keys, values) ==
    [c \in Range(keys) |->
        values[CHOOSE k \in 1..Len(keys) :
                   keys[k] = c /\ \A j \in (k + 1)..Len(keys) : keys[j] # c]]

UPCASE_ALPHABET ==
    Alphabet(ascii_uppercase,
             dict_zip(ascii_letters, ascii_uppercase \o ascii_uppercase))

ENGFREQ ==
    dict_zip(ascii_uppercase,
             <<8167, 1492, 2782, 4253, 12702, 2228, 2015, 6094, 6966, 153,
               772, 4025, 2406, 6749, 7507, 1929, 95, 5987, 6327, 9056,
               2758, 978, 2360, 150, 1974, 70>>)

(***************************************************************************)
(* The session: a Message is constructed from a text, then up to MaxSteps  *)
(* calls are made on the current message.  call records the last call:     *)
(* its name, its key, the message it was given, and, for a decrypt that    *)
(* directly follows the encrypt of the same cipher with the same key, the  *)
(* message that encrypt was given (undoes).                                *)
(***************************************************************************)
TextChars == {"A", "b", "-"}

Texts == SeqsUpTo(TextChars, MaxLen)

Shifts == (-MaxShift)..MaxShift

KeyChars == {"B", "C"}

Keys == SeqsUpTo(KeyChars, MaxKey)

Counters ==
    { ("A" :> 1 @@ "B" :> 1 @@ "C" :> 1),
      ("A" :> 3 @@ "B" :> 2 @@ "C" :> 1) }

Call(op, key, src, undoes) == [op |-> op, key |-> key, src |-> src, undoes |-> undoes]

Init ==
    \E text \in Texts :
        /\ message = Message(text, ABC_ALPHABET)
        /\ call = Call("Message", <<>>, message, <<>>)
        /\ result = Ok(<<>>)
        /\ steps = 0

Step ==
    /\ steps < MaxSteps
    /\ steps' = steps + 1

Encrypt(S) ==
    \E s \in S :
        /\ Step
        /\ message' = CaesarCipher_encrypt(s, message)
        /\ call' = Call("CaesarCipher.encrypt", <<s>>, message, <<>>)
        /\ result' = Ok(<<>>)

Decrypt(S) ==
    \E s \in S :
        /\ Step
        /\ message' = CaesarCipher_decrypt(s, message)
        /\ call' = Call("CaesarCipher.decrypt", <<s>>, message,
                        IF call.op = "CaesarCipher.encrypt" /\ call.key = <<s>>
                        THEN <<call.src>> ELSE <<>>)
        /\ result' = Ok(<<>>)

\* CaesarCipher.crack(message, SimilarityMetric(counter=counter))
CrackWith(C) ==
    \E counter \in C :
        /\ Step
        /\ result' = crack(message, SimilarityMetric_counter(counter).value)
        /\ call' = Call("CaesarCipher.crack", <<counter>>, message, <<>>)
        /\ UNCHANGED message

CaesarEncrypt == Encrypt(Shifts)

CaesarDecrypt == Decrypt(Shifts)

VigenereEncrypt ==
    \E key \in Keys :
        /\ Step
        /\ message' = VigenereCipher_encrypt(key, message)
        /\ call' = Call("VigenereCipher.encrypt", key, message, <<>>)
        /\ result' = Ok(<<>>)

VigenereDecrypt ==
    \E key \in Keys :
        /\ Step
        /\ message' = VigenereCipher_decrypt(key, message)
        /\ call' = Call("VigenereCipher.decrypt", key, message,
                        IF call.op = "VigenereCipher.encrypt" /\ call.key = key
                        THEN <<call.src>> ELSE <<>>)
        /\ result' = Ok(<<>>)

AsOriginal ==
    /\ Step
    /\ result' = as_original(message)
    /\ call' = Call("as_original", <<>>, message, <<>>)
    /\ UNCHANGED message

\* SimilarityMetric(training=message)
NewMetric ==
    /\ Step
    /\ LET sim == SimilarityMetric_training(message) IN
       result' = IF sim.raised # "" THEN sim ELSE Ok(<<sim.value>>)
    /\ call' = Call("SimilarityMetric", <<>>, message, <<>>)
    /\ UNCHANGED message

\* SimilarityMetric(counter=counter).compute(message)
Compute ==
    \E counter \in Counters :
        /\ Step
        /\ LET sim == SimilarityMetric_counter(counter).value
               score == compute(sim, message) IN
           result' = IF score.raised # "" THEN score ELSE Ok(<<score.value>>)
        /\ call' = Call("SimilarityMetric.compute", <<counter>>, message, <<>>)
        /\ UNCHANGED message

Crack == CrackWith(Counters)

Next ==
    \/ CaesarEncrypt
    \/ CaesarDecrypt
    \/ VigenereEncrypt
    \/ VigenereDecrypt
    \/ AsOriginal
    \/ NewMetric
    \/ Compute
    \/ Crack

Spec == Init /\ [][Next]_vars

(***************************************************************************)
(* The reference session: the pangram over the default alphabet, Caesar    *)
(* ciphers of every shift of that alphabet, and the crack against ENGFREQ. *)
(***************************************************************************)
PLAINTEXT ==
    <<"T", "H", "E", "Q", "U", "I", "C", "K", "B", "R", "O", "W", "N",
      "F", "O", "X", "J", "U", "M", "P", "S", "O", "V", "E", "R", "T",
      "H", "E", "L", "A", "Z", "Y", "D", "O", "G">>

ReferenceShifts == 0..(Len(UPCASE_ALPHABET.characters) - 1)

InitReference ==
    /\ message = Message(PLAINTEXT, UPCASE_ALPHABET)
    /\ call = Call("Message", <<>>, message, <<>>)
    /\ result = Ok(<<>>)
    /\ steps = 0

ReferenceEncrypt == Encrypt(ReferenceShifts)

ReferenceDecrypt == Decrypt(ReferenceShifts)

ReferenceCrack == CrackWith({ENGFREQ})

NextReference ==
    \/ ReferenceEncrypt
    \/ ReferenceDecrypt
    \/ ReferenceCrack
    \/ AsOriginal

SpecReference == InitReference /\ [][NextReference]_vars

(***************************************************************************)
(* The scan session: longer texts of alphabet symbols, Vigenere encrypt    *)
(* and the index-of-coincidence scan of the current message.               *)
(***************************************************************************)
MaxScanLen == 5

ScanChars == {"A", "B"}

ScanTexts == SeqsUpTo(ScanChars, MaxScanLen)

InitScan ==
    \E text \in ScanTexts :
        /\ message = Message(text, ABC_ALPHABET)
        /\ call = Call("Message", <<>>, message, <<>>)
        /\ result = Ok(<<>>)
        /\ steps = 0

Ic ==
    /\ Step
    /\ result' = ic(message)
    /\ call' = Call("VigenereCipher.ic", <<>>, message, <<>>)
    /\ UNCHANGED message

NextScan ==
    \/ VigenereEncrypt
    \/ Ic

SpecScan == InitScan /\ [][NextScan]_vars

(***************************************************************************)
(* The derivation session: Message.create_from with any new alphabet text, *)
(* of the length of the offsets or not, and as_original of the result.     *)
(***************************************************************************)
DerivedChars == {"B", "C"}

Alphatexts == SeqsUpTo(DerivedChars, MaxLen + 1)

CreateFrom ==
    \E new_alphatext \in Alphatexts :
        /\ Step
        /\ message' = create_from(message, new_alphatext)
        /\ call' = Call("Message.create_from", new_alphatext, message, <<>>)
        /\ result' = Ok(<<>>)

NextDerive ==
    \/ CreateFrom
    \/ AsOriginal

SpecDerive == Init /\ [][NextDerive]_vars

(***************************************************************************)
(* Properties                                                              *)
(***************************************************************************)
Fresh(m) == m.alphatext = to_alphabet(m.alphabet, m.original)[1]

\* What to_alphabet keeps of a character: itself if it is a symbol, its
\* image if it has a mapper entry; a character it drops stays as it is.
Normalized(alphabet, c) ==
    IF c \in alphabet.charset THEN c
    ELSE IF c \in DOMAIN alphabet.mapper THEN alphabet.mapper[c]
    ELSE c

\* C1 as stated: from_alphabet of the output of to_alphabet(text) returns
\* text itself, element for element.
C1_RoundTripExact ==
    (call.op = "as_original" /\ Fresh(call.src))
        => (result.raised = "" /\ result.value = call.src.original)

\* C1 as amended: from_alphabet of the output of to_alphabet(text) returns a
\* sequence of the length of text that holds, at every position, the
\* character of text if it is an alphabet symbol or has no mapper entry, and
\* its mapper image otherwise.
C1_RoundTripNormalized ==
    (call.op = "as_original" /\ Fresh(call.src))
        => /\ result.raised = ""
           /\ Len(result.value) = Len(call.src.original)
           /\ \A i \in 1..Len(call.src.original) :
                  result.value[i] = Normalized(call.src.alphabet, call.src.original[i])

C1_Witness ==
    /\ call.op = "as_original"
    /\ Fresh(call.src)
    /\ call.src.original = <<"A", "-", "b">>
    /\ result = Ok(<<"A", "-", "B">>)

\* C2: a Caesar decrypt that directly follows the encrypt with the same
\* shift returns a message with the alphabet text, offsets, original and
\* alphabet of the message that was encrypted.
C2_CaesarInverse ==
    (call.op = "CaesarCipher.decrypt" /\ call.undoes # <<>>)
        => /\ message.alphatext = call.undoes[1].alphatext
           /\ message.offsets = call.undoes[1].offsets
           /\ message.original = call.undoes[1].original
           /\ message.alphabet = call.undoes[1].alphabet

C2_Witness ==
    /\ call.op = "CaesarCipher.decrypt"
    /\ call.undoes # <<>>
    /\ call.key = <<-MaxShift>>
    /\ Len(message.alphatext) >= 2
    /\ call.src.alphatext # message.alphatext
    /\ message.alphatext = call.undoes[1].alphatext

\* C3: a Vigenere decrypt that directly follows the encrypt with the same
\* key of length at least 1 returns the alphabet text that was encrypted,
\* whatever the length of the text is relative to the key.
C3_VigenereInverse ==
    (call.op = "VigenereCipher.decrypt" /\ call.undoes # <<>> /\ Len(call.key) >= 1)
        => message.alphatext = call.undoes[1].alphatext

C3_Witness ==
    /\ call.op = "VigenereCipher.decrypt"
    /\ call.undoes # <<>>
    /\ Len(call.key) = 2
    /\ call.key[1] # call.key[2]
    /\ Len(message.alphatext) = 3
    /\ call.src.alphatext # message.alphatext
    /\ message.alphatext = call.undoes[1].alphatext

\* C4: crack on a message with a non-empty alphabet text returns the full
\* ranked list, one entry per shift, and does not raise.
C4_CrackNeverFails ==
    (call.op = "CaesarCipher.crack" /\ call.src.alphatext # <<>>)
        => /\ result.raised = ""
           /\ Len(result.value) = Len(call.src.alphabet.characters)

C6_ReferenceCrack ==
    (/\ call.op = "CaesarCipher.crack"
     /\ call.key = <<ENGFREQ>>
     /\ call.src = CaesarCipher_encrypt(7, Message(PLAINTEXT, UPCASE_ALPHABET)))
        => /\ result.raised = ""
           /\ result.value[1].cipher.shift = 7
           /\ result.value[1].message.alphatext = PLAINTEXT

C6_Witness ==
    /\ call.op = "CaesarCipher.crack"
    /\ call.key = <<ENGFREQ>>
    /\ call.src.alphatext # PLAINTEXT
    /\ call.src = CaesarCipher_encrypt(7, Message(PLAINTEXT, UPCASE_ALPHABET))
    /\ result.raised = ""
    /\ Len(result.value) = 26

\* C7: from_alphabet on the offsets of to_alphabet(original) and an alphabet
\* text of that many elements returns r of the length of original, with
\* r[offsets[k]] = alphabet_text[k] and the original character elsewhere.
C7_Reconstruction ==
    (/\ call.op = "as_original"
     /\ call.src.offsets = to_alphabet(call.src.alphabet, call.src.original)[2]
     /\ Len(call.src.alphatext) = Len(call.src.offsets))
        => LET m == call.src
               r == result.value
           IN /\ result.raised = ""
              /\ Len(r) = Len(m.original)
              /\ \A k \in 1..Len(m.offsets) : r[m.offsets[k] + 1] = m.alphatext[k]
              /\ \A i \in 0..(Len(m.original) - 1) :
                     i \notin Range(m.offsets) => r[i + 1] = m.original[i + 1]

C7_Witness ==
    /\ call.op = "as_original"
    /\ call.src.original = <<"b", "A", "-">>
    /\ call.src.alphatext = <<"C", "B">>
    /\ result = Ok(<<"C", "B", "-">>)

\* C8: frequency computation on a message with an empty alphabet text ends
\* in a rejection raised by an explicit check, not in a score and not in the
\* ZeroDivisionError of the division itself.
C8_EmptyRejected ==
    (/\ call.op \in {"SimilarityMetric", "SimilarityMetric.compute"}
     /\ call.src.alphatext = <<>>)
        => result.raised \notin {"", "ZeroDivisionError"}

\* C9: every message has as many offsets as alphabet-text elements, the
\* offsets strictly increasing and each a position of original.
C9_MessageInvariant ==
    /\ Len(message.offsets) = Len(message.alphatext)
    /\ \A k \in 1..(Len(message.offsets) - 1) : message.offsets[k] < message.offsets[k + 1]
    /\ \A k \in 1..Len(message.offsets) :
           message.offsets[k] \in 0..(Len(message.original) - 1)

\* C10: Vigenere encrypt with a key of length L >= 1 maps element j of the
\* alphabet text to the symbol at (index of it + index of key[j mod L]) mod
\* the alphabet size, at the same position j, for a text of any length.
C10_VigenerePositional ==
    (call.op = "VigenereCipher.encrypt" /\ Len(call.key) >= 1)
        => LET t == call.src.alphatext
               c == message.alphatext
               symbols == message.alphabet.characters
               L == Len(call.key)
           IN /\ Len(c) = Len(t)
              /\ \A j \in 0..(Len(t) - 1) :
                     c[j + 1] = symbols[((index(symbols, t[j + 1])
                                          + index(symbols, call.key[(j % L) + 1]))
                                         % Len(symbols)) + 1]

C10_Witness ==
    /\ call.op = "VigenereCipher.encrypt"
    /\ Len(call.key) = 3
    /\ call.key[1] # call.key[2]
    /\ Len(call.src.alphatext) = 2
    /\ Len(message.alphatext) = 2

\* C11: the scan of a message with an alphabet text of n elements completes
\* and reports one value for each key size from 2 to n - 2, in that order.
C11_ScanCovers ==
    (call.op = "VigenereCipher.ic")
        => LET n == Len(call.src.alphatext) IN
           /\ result.raised = ""
           /\ Len(result.value) = (IF n >= 4 THEN n - 3 ELSE 0)
           /\ \A k \in 1..Len(result.value) : result.value[k].key_size = k + 1

\* C12: from_alphabet on an alphabet text whose length differs from that of
\* the offsets ends in an error and returns no sequence.
C12_MismatchFatal ==
    (call.op = "as_original" /\ Len(call.src.alphatext) # Len(call.src.offsets))
        => result.raised # ""

\* The mean, over the i residue classes of s, of the index of coincidence.
MeanIoc(s, i) ==
    LET total == frac_sum(List([x \in 1..i |->
                     index_of_coincidence(slice(s, x - 1, i)).value]))
    IN Frac(total[1], total[2] * i)

\* C13: every value the scan reports for a key size i is the mean index of
\* coincidence of the i residue classes times the size of the alphabet of
\* the message.
C13_ScaledByAlphabet ==
    (call.op = "VigenereCipher.ic")
        => \A k \in 1..Len(result.value) :
               LET mean == MeanIoc(call.src.alphatext, result.value[k].key_size)
                   size == Len(call.src.alphabet.characters)
               IN result.value[k].value = Frac(mean[1] * size, mean[2])

\* C14: Vigenere encrypt with a key of length L >= 1 maps two equal
\* substrings of k >= 2 elements that start a multiple of L apart to equal
\* substrings at the same two positions of the result.
C14_KasiskiPremise ==
    (call.op = "VigenereCipher.encrypt" /\ Len(call.key) >= 1)
        => LET t == call.src.alphatext
               c == message.alphatext
               n == Len(t)
               L == Len(call.key)
           IN \A k \in 2..n : \A i, j \in 0..(n - k) :
                  (/\ i < j
                   /\ (j - i) % L = 0
                   /\ SubSeq(t, i + 1, i + k) = SubSeq(t, j + 1, j + k))
                      => /\ Len(c) = n
                         /\ SubSeq(c, i + 1, i + k) = SubSeq(c, j + 1, j + k)

C14_Witness ==
    /\ call.op = "VigenereCipher.encrypt"
    /\ call.key = <<"B", "C">>
    /\ call.src.alphatext = <<"A", "B", "A", "B", "A">>
    /\ message.alphatext = <<"B", "A", "B", "A", "B">>
    /\ SubSeq(message.alphatext, 1, 2) = SubSeq(message.alphatext, 3, 4)

====
